---- MODULE Spec2Model ----
(***************************************************************************)
(* Model of the chat backend (backend/app): the messages and               *)
(* pending_replies tables, and the HTTP handlers of main.py that read and  *)
(* write them.  Every handler is split at its database statements: each    *)
(* crud.py call commits on its own, the handlers take no lock, and the     *)
(* application may be served by several workers over the same SQLite file, *)
(* so requests interleave between any two statements.  Code that runs      *)
(* between two statements without touching the database is local to the    *)
(* request and is folded into the statement that precedes it.              *)
(***************************************************************************)
EXTENDS Integers, FiniteSets, Sequences, TLC

\* ------------------------------------------------------------------ bounds
MaxMessages == 3        \* largest id handed out in table messages
MaxPendings == 2        \* largest id handed out in table pending_replies
TickSeconds == 60       \* one step of the clock (seconds)
MaxInFlight == 2        \* requests being handled at the same time
MaxHistory == 4         \* largest id handed out in table messages (history)
MaxStamp == 5           \* last clock value at which a message is stored (history)
MaxLimit == 4           \* largest limit asked of GET /api/messages
MaxUsers == 2           \* largest id handed out in table users

\* --------------------------------------------------------------- constants
StaleSeconds == 60      \* timedelta(seconds=60)
access_token_exp_minutes == 15          \* config.py 22
refresh_token_exp_minutes == 10080      \* config.py 23: 60 * 24 * 7

Users == {1, 2}                     \* ids of the registered users
ChatSlots == {1, 2}                 \* concurrent POST /api/chat requests
FailSlots == {1}                    \* concurrent POST /api/chat/pending/{id}/fail
CallbackSlots == {1, 2}             \* concurrent POST /api/chat/callback
UserContents == {"hello"}           \* ChatRequest.content
Replies == {"r1"}                  \* N8nCallbackPayload.reply
Secret == "secret"
Headers == {"none", "secret", "wrong"}   \* X-Callback-Token ("none": absent)

None == 0               \* NULL / no row (ids start at 1)

VARIABLES
    messages,       \* table messages: set of rows
    pendings,       \* table pending_replies: set of rows
    settings,       \* config.Settings, read once at start
    chat,           \* per ChatSlot: position and locals of send_message
    failreq,        \* per FailSlot: position and locals of fail_pending
    cbreq,          \* per CallbackSlot: position and locals of receive_n8n_callback
    response,       \* what the last step did at the HTTP boundary
    users,          \* table users: set of rows
    regreq,         \* per RegisterSlot: position and locals of register_user
    now,            \* the clock, where absolute time is read (tokens, created_at)
    retired         \* history: message ids whose PendingReply has been deleted

vars == <<messages, pendings, settings, chat, failreq, cbreq, response,
          users, regreq, now, retired>>

\* What the chat handlers of main.py 125-245 neither read nor write
aside == <<users, regreq, now, retired>>

\* ------------------------------------------------------------ the database
Max(S) == CHOOSE x \in S : \A y \in S : y <= x

\* INTEGER PRIMARY KEY without AUTOINCREMENT: one more than the largest id
\* in the table, so the id of a deleted last row is handed out again.
NextId(rows) == IF rows = {} THEN 1 ELSE Max({r.id : r \in rows}) + 1

Ids(rows) == {r.id : r \in rows}

\* Columns author and created_at of a message are read by no handler modelled
\* here and are left out.
Message(id, user, content, direction) ==
    [id |-> id, user_id |-> user, content |-> content, direction |-> direction]

\* created_at is kept relative to the clock: age = now - created_at, which is
\* all that main.py 146 computes from it.  A new row has age 0.
PendingReply(id, user, msg) ==
    [id |-> id, user_id |-> user, user_message_id |-> msg,
     bot_message_id |-> None, status |-> "pending", age |-> 0]

NoPending == [id |-> None, user_id |-> None, user_message_id |-> None,
              bot_message_id |-> None, status |-> "none", age |-> 0]

create_message(msgs, user, content, direction) ==
    msgs \cup {Message(NextId(msgs), user, content, direction)}

delete_message(msgs, id) == {m \in msgs : m.id # id}

\* crud.py 45: WHERE messages.user_id = ?
MessagesOf(msgs, u) == {m \in msgs : m.user_id = u}

\* ORDER BY created_at DESC, first(): the row created last.  Timestamps have
\* microsecond resolution, so among rows of one age the later insert is
\* newer, and a later insert always has the larger id (NextId).
Newer(p, q) ==
    \/ p.age < q.age
    \/ p.age = q.age /\ p.id >= q.id

get_pending_reply_by_user(pends, user, only_pending) ==
    LET rows == {p \in pends : /\ p.user_id = user
                               /\ (only_pending => p.status = "pending")}
    IN  IF rows = {} THEN NoPending
        ELSE CHOOSE p \in rows : \A q \in rows : Newer(p, q)

get_pending_reply_by_id(pends, id, user) ==
    LET rows == {p \in pends : p.id = id /\ (user # None => p.user_id = user)}
    IN  IF rows = {} THEN NoPending ELSE CHOOSE p \in rows : TRUE

get_pending_reply_by_message_id(pends, mid) ==
    LET rows == {p \in pends : p.user_message_id = mid}
    IN  IF rows = {} THEN NoPending ELSE CHOOSE p \in rows : TRUE

create_pending_reply(pends, user, msg) ==
    pends \cup {PendingReply(NextId(pends), user, msg)}

\* UPDATE pending_replies SET bot_message_id=?, status=? WHERE id=?
complete_pending_reply(pends, id, bot) ==
    {IF p.id = id THEN [p EXCEPT !.bot_message_id = bot, !.status = "completed"]
     ELSE p : p \in pends}

\* UPDATE pending_replies SET status='failed' WHERE id=?
fail_pending_reply(pends, id) ==
    {IF p.id = id THEN [p EXCEPT !.status = "failed"] ELSE p : p \in pends}

delete_pending_reply(pends, id) == {p \in pends : p.id # id}

\* ------------------------------------------------------------- the requests
ChatIdle == [pc |-> "idle", user |-> None, content |-> "",
             existing |-> None, inbound |-> None, pending |-> None, exc |-> 0]
FailIdle == [pc |-> "idle", user |-> None, pending |-> None]
CallbackIdle == [pc |-> "idle", message_id |-> None, reply |-> "",
                 pending |-> None, user |-> None, bot |-> None]

\* What the last step did at the HTTP boundary: the handler, the authenticated
\* user (None for the callback, which has none), the HTTP status it returned
\* (0: none yet) and, when the step refused a callback request for its token
\* or let one through to a pending row, the X-Callback-Token it carried.
NoResponse == [op |-> "none", user |-> None, status |-> 0, header |-> "n/a"]
Response(op, user, status) ==
    [op |-> op, user |-> user, status |-> status, header |-> "n/a"]
CallbackReceived(header, status) ==
    [op |-> "callback", user |-> None, status |-> status, header |-> header]

\* Requests in progress.  Slots of one handler are interchangeable, so a new
\* request takes the lowest free one.
InFlight ==
    Cardinality({s \in ChatSlots : chat[s].pc # "idle"})
    + Cardinality({f \in FailSlots : failreq[f].pc # "idle"})
    + Cardinality({c \in CallbackSlots : cbreq[c].pc # "idle"})

FreeChat(s) == chat[s].pc = "idle" /\ \A t \in ChatSlots : t < s => chat[t].pc # "idle"
FreeFail(f) == failreq[f].pc = "idle" /\ \A t \in FailSlots : t < f => failreq[t].pc # "idle"
FreeCallback(c) == cbreq[c].pc = "idle" /\ \A t \in CallbackSlots : t < c => cbreq[t].pc # "idle"
Accepting == InFlight < MaxInFlight

\* ------------------------------------------------------------- the accounts
\* An email address is the sequence of its characters; str.lower() maps each
\* character to its lowercase form.
LowerChar(c) == CASE c = "A" -> "a" [] c = "X" -> "x" [] OTHER -> c
lower(email) == [i \in DOMAIN email |-> LowerChar(email[i])]

Emails == {<<"a", "@", "x">>, <<"A", "@", "x">>, <<"b", "@", "x">>}   \* UserCreate.email
Passwords == {"password1", "password2"}                               \* UserCreate.password

\* bcrypt: the hash is a one-way image of the password, and checkpw hashes
\* the candidate again and compares.
hash_password(password) == <<"bcrypt", password>>
verify_password(password, hashed) == hash_password(password) = hashed

User(id, email, hashed_password) ==
    [id |-> id, email |-> email, hashed_password |-> hashed_password]
NoUser == [id |-> None, email |-> <<>>, hashed_password |-> <<>>]

\* get_user_by_email comparing the email as it was typed
get_user_by_email_AsTyped(usrs, email) ==
    LET rows == {u \in usrs : u.email = email}
    IN  IF rows = {} THEN NoUser ELSE CHOOSE u \in rows : TRUE

\* crud.py 20-22
get_user_by_email(usrs, email) ==
    LET rows == {u \in usrs : u.email = lower(email)}
    IN  IF rows = {} THEN NoUser ELSE CHOOSE u \in rows : TRUE

\* session.get(models.User, id)
get_user(usrs, id) ==
    LET rows == {u \in usrs : u.id = id}
    IN  IF rows = {} THEN NoUser ELSE CHOOSE u \in rows : TRUE

\* crud.py 8-17, the row it inserts
create_user(usrs, email, password) ==
    usrs \cup {User(NextId(usrs), lower(email), hash_password(password))}

\* crud.py 25-31
authenticate_user(usrs, email, password) ==
    LET user == get_user_by_email(usrs, email)
    IN  IF user = NoUser THEN NoUser
        ELSE IF ~verify_password(password, user.hashed_password) THEN NoUser
        ELSE user

\* The accounts of the callers of the chat endpoints
RegisteredUsers ==
    {User(1, <<"a", "@", "x">>, hash_password("password1")),
     User(2, <<"b", "@", "x">>, hash_password("password2"))}

RegisterSlots == {1, 2}             \* concurrent POST /api/auth/register
RegisterIdle == [pc |-> "idle", email |-> <<>>, password |-> ""]

\* config.py 16-17: both settings are optional and fixed for the life of the
\* process.  n8n_webhook_url is read by forward_to_n8n alone and
\* n8n_callback_token by receive_n8n_callback alone, so each value of either
\* setting is covered by one of two configurations.
Configurations ==
    {[n8n_webhook_url |-> TRUE, n8n_callback_token |-> "none"],
     [n8n_webhook_url |-> FALSE, n8n_callback_token |-> Secret]}

Init ==
    /\ messages = {}
    /\ pendings = {}
    /\ settings \in Configurations
    /\ chat = [s \in ChatSlots |-> ChatIdle]
    /\ failreq = [f \in FailSlots |-> FailIdle]
    /\ cbreq = [c \in CallbackSlots |-> CallbackIdle]
    /\ response = NoResponse
    /\ users = RegisteredUsers
    /\ regreq = [r \in RegisterSlots |-> RegisterIdle]
    /\ now = 0
    /\ retired = {}

\* The clock advances.  Ages are compared with StaleSeconds only, so an age
\* beyond it is kept as the first clock value beyond it.
AgeCap == ((StaleSeconds \div TickSeconds) + 1) * TickSeconds
Older(age) == IF age + TickSeconds > AgeCap THEN AgeCap ELSE age + TickSeconds

Tick ==
    /\ pendings' = {[p EXCEPT !.age = Older(p.age)] : p \in pendings}
    /\ pendings' # pendings
    /\ response' = NoResponse
    /\ UNCHANGED <<messages, settings, chat, failreq, cbreq, aside>>

\* ------------------------------------------------- POST /api/chat (send_message)
\* Supersedable with the age compared by >= in place of >
Supersedable_AtSixty(p) ==
    \/ p.status = "failed"
    \/ p.age >= StaleSeconds

\* main.py 137-148: the existing row is deleted when it is failed or older
\* than 60 seconds; otherwise the request is refused.
Supersedable(p) ==
    \/ p.status = "failed"
    \/ p.age > StaleSeconds

\* SendForbidden with the test of main.py 131 placed after the handling of the
\* caller's existing row (main.py 134-148)
SendForbidden_AfterSupersede(s, u, body_user) ==
    /\ FreeChat(s) /\ Accepting
    /\ body_user # u
    /\ LET existing == get_pending_reply_by_user(pendings, u, FALSE)
       IN  pendings' = IF existing # NoPending /\ Supersedable(existing)
                       THEN delete_pending_reply(pendings, existing.id)
                       ELSE pendings
    /\ response' = Response("send", u, 403)
    /\ UNCHANGED <<messages, settings, chat, failreq, cbreq, aside>>

\* main.py 131-132
SendForbidden(s, u, body_user) ==
    /\ FreeChat(s) /\ Accepting
    /\ body_user # u
    /\ response' = Response("send", u, 403)
    /\ UNCHANGED <<messages, pendings, settings, chat, failreq, cbreq, aside>>

\* SendDecision going on over a failed or stale row without deleting it
SendDecision_KeepsSuperseded(existing) ==
    IF existing = NoPending \/ Supersedable(existing) THEN "proceed"
    ELSE "conflict"

\* SendDecision with a completed row handled like a failed one
SendDecision_CompletedFree(existing) ==
    IF existing = NoPending THEN "proceed"
    ELSE IF Supersedable(existing) \/ existing.status = "completed" THEN "delete"
    ELSE "conflict"

\* main.py 135-152: what send_message does about the row the SELECT returned
SendDecision(existing) ==
    IF existing = NoPending THEN "proceed"
    ELSE IF Supersedable(existing) THEN "delete"
    ELSE "conflict"

\* main.py 134-152: the SELECT and the decision taken on its result
SendLookup(s, u, c) ==
    /\ FreeChat(s) /\ Accepting
    /\ LET existing == get_pending_reply_by_user(pendings, u, FALSE)
           decision == SendDecision(existing)
       IN  IF decision = "conflict"
           THEN /\ response' = Response("send", u, 409)
                /\ chat' = chat
           ELSE /\ chat' = [chat EXCEPT ![s] =
                        [ChatIdle EXCEPT !.pc = IF decision = "delete" THEN "delete_existing"
                                                ELSE "create_message",
                                         !.user = u, !.content = c,
                                         !.existing = existing.id]]
                /\ response' = NoResponse
    /\ UNCHANGED <<messages, pendings, settings, failreq, cbreq, aside>>

\* SendDeleteExisting removing the superseded row's user message as well, as
\* the rollback of main.py 171-172 does
SendDeleteExisting_WithMessage(s) ==
    /\ chat[s].pc = "delete_existing"
    /\ pendings' = delete_pending_reply(pendings, chat[s].existing)
    /\ messages' = {m \in messages :
                       \A p \in pendings : p.id = chat[s].existing => m.id # p.user_message_id}
    /\ chat' = [chat EXCEPT ![s].pc = "create_message"]
    /\ response' = NoResponse
    /\ UNCHANGED <<settings, failreq, cbreq, aside>>

\* main.py 138 / 148: delete_pending_reply(session, existing_pending)
SendDeleteExisting(s) ==
    /\ chat[s].pc = "delete_existing"
    /\ pendings' = delete_pending_reply(pendings, chat[s].existing)
    /\ chat' = [chat EXCEPT ![s].pc = "create_message"]
    /\ response' = NoResponse
    /\ UNCHANGED <<messages, settings, failreq, cbreq, aside>>

\* main.py 154-160
SendCreateMessage(s) ==
    /\ chat[s].pc = "create_message"
    /\ NextId(messages) <= MaxMessages
    /\ messages' = create_message(messages, chat[s].user, chat[s].content, "user")
    /\ chat' = [chat EXCEPT ![s].pc = "create_pending", ![s].inbound = NextId(messages)]
    /\ response' = NoResponse
    /\ UNCHANGED <<pendings, settings, failreq, cbreq, aside>>

\* main.py 162.  user_message_id is UNIQUE: a second row for the same message
\* raises IntegrityError, which no handler catches (500, the message stays).
SendCreatePending(s) ==
    /\ chat[s].pc = "create_pending"
    /\ NextId(pendings) <= MaxPendings
    /\ IF \E p \in pendings : p.user_message_id = chat[s].inbound
       THEN /\ pendings' = pendings
            /\ chat' = [chat EXCEPT ![s] = ChatIdle]
            /\ response' = Response("send", chat[s].user, 500)
       ELSE /\ pendings' = create_pending_reply(pendings, chat[s].user, chat[s].inbound)
            /\ chat' = [chat EXCEPT ![s].pc = "forwarding", ![s].pending = NextId(pendings)]
            /\ response' = NoResponse
    /\ UNCHANGED <<messages, settings, failreq, cbreq, aside>>

\* forward_to_n8n, main.py 44-60: what the call does for each behaviour of
\* the webhook.  "raised" is the exception that leaves the function:
\* HTTPException, httpx.HTTPError, another exception, or none.
WebhookBehaviours == {"json", "text", "bad_status", "transport_error", "bad_json"}

forward_to_n8n(url_set, behaviour) ==
    IF ~url_set THEN [raised |-> "HTTPException", status |-> 500]
    ELSE IF behaviour = "transport_error" THEN [raised |-> "httpx.HTTPError", status |-> 502]
    ELSE IF behaviour = "bad_status" THEN [raised |-> "HTTPException", status |-> 502]
    ELSE IF behaviour = "bad_json" THEN [raised |-> "JSONDecodeError", status |-> 500]
    ELSE [raised |-> "none", status |-> 201]

\* main.py 169: except (httpx.HTTPError, HTTPException)
Caught(raised) == raised \in {"httpx.HTTPError", "HTTPException"}

\* main.py 164-180: the awaited call returns or raises; on a caught exception
\* the handler goes on to delete_pending_reply (171), on any other exception
\* the request ends as a 500 without the except block having run.
SendForward(s, behaviour) ==
    /\ chat[s].pc = "forwarding"
    /\ LET out == forward_to_n8n(settings.n8n_webhook_url, behaviour)
       IN  IF out.raised = "none"
           THEN /\ pendings' = pendings
                /\ chat' = [chat EXCEPT ![s] = ChatIdle]
                /\ response' = Response("send", chat[s].user, 201)
           ELSE IF Caught(out.raised)
           THEN /\ pendings' = delete_pending_reply(pendings, chat[s].pending)
                /\ chat' = [chat EXCEPT ![s].pc = "delete_message", ![s].exc = out.status]
                /\ response' = NoResponse
           ELSE /\ pendings' = pendings
                /\ chat' = [chat EXCEPT ![s] = ChatIdle]
                /\ response' = Response("send", chat[s].user, out.status)
    /\ UNCHANGED <<messages, settings, failreq, cbreq, aside>>

\* main.py 172-175
SendDeleteMessage(s) ==
    /\ chat[s].pc = "delete_message"
    /\ messages' = delete_message(messages, chat[s].inbound)
    /\ chat' = [chat EXCEPT ![s] = ChatIdle]
    /\ response' = Response("send", chat[s].user, chat[s].exc)
    /\ UNCHANGED <<pendings, settings, failreq, cbreq, aside>>

\* ------------------------- POST /api/chat/pending/{id}/fail (fail_pending)
\* main.py 212-216
FailLookup(f, u, id) ==
    /\ FreeFail(f) /\ Accepting
    /\ LET pending == get_pending_reply_by_id(pendings, id, u)
       IN  IF pending = NoPending
           THEN /\ failreq' = failreq
                /\ response' = Response("fail", u, 404)
           ELSE IF pending.status # "pending"
           THEN /\ failreq' = failreq
                /\ response' = Response("fail", u, 409)
           ELSE /\ failreq' = [failreq EXCEPT ![f] =
                        [pc |-> "commit", user |-> u, pending |-> id]]
                /\ response' = NoResponse
    /\ UNCHANGED <<messages, pendings, settings, chat, cbreq, aside>>

\* main.py 217-218.  The UPDATE names the row by id alone; when no row has
\* that id any more the flush raises StaleDataError (500).
FailCommit(f) ==
    /\ failreq[f].pc = "commit"
    /\ IF failreq[f].pending \in Ids(pendings)
       THEN /\ pendings' = fail_pending_reply(pendings, failreq[f].pending)
            /\ response' = Response("fail", failreq[f].user, 200)
       ELSE /\ pendings' = pendings
            /\ response' = Response("fail", failreq[f].user, 500)
    /\ failreq' = [failreq EXCEPT ![f] = FailIdle]
    /\ UNCHANGED <<messages, settings, chat, cbreq, aside>>

\* ----------------------------- POST /api/chat/callback (receive_n8n_callback)
\* TokenRejected with a request that carries no header let through
TokenRejected_MissingAccepted(configured, header) ==
    configured # "none" /\ header # "none" /\ header # configured

\* main.py 227
TokenRejected(configured, header) == configured # "none" /\ header # configured

\* main.py 227-228
CallbackForbidden(c, header) ==
    /\ FreeCallback(c) /\ Accepting
    /\ TokenRejected(settings.n8n_callback_token, header)
    /\ response' = CallbackReceived(header, 403)
    /\ UNCHANGED <<messages, pendings, settings, chat, failreq, cbreq, aside>>

\* main.py 227-234
CallbackLookup(c, header, mid, reply) ==
    /\ FreeCallback(c) /\ Accepting
    /\ ~TokenRejected(settings.n8n_callback_token, header)
    /\ LET pending == get_pending_reply_by_message_id(pendings, mid)
       IN  IF pending = NoPending
           THEN /\ cbreq' = cbreq
                /\ response' = Response("callback", None, 404)
           ELSE IF pending.status # "pending"
           THEN /\ cbreq' = cbreq
                /\ response' = Response("callback", None, 409)
           ELSE /\ cbreq' = [cbreq EXCEPT ![c] =
                        [pc |-> "create_message", message_id |-> mid, reply |-> reply,
                         pending |-> pending.id, user |-> pending.user_id, bot |-> None]]
                /\ response' = CallbackReceived(header, 0)
    /\ UNCHANGED <<messages, pendings, settings, chat, failreq, aside>>

\* main.py 236-242
CallbackCreateMessage(c) ==
    /\ cbreq[c].pc = "create_message"
    /\ NextId(messages) <= MaxMessages
    /\ messages' = create_message(messages, cbreq[c].user, cbreq[c].reply, "n8n")
    /\ cbreq' = [cbreq EXCEPT ![c].pc = "complete", ![c].bot = NextId(messages)]
    /\ response' = NoResponse
    /\ UNCHANGED <<pendings, settings, chat, failreq, aside>>

\* main.py 244-245; StaleDataError (500) when the row is gone
CallbackComplete(c) ==
    /\ cbreq[c].pc = "complete"
    /\ IF cbreq[c].pending \in Ids(pendings)
       THEN /\ pendings' = complete_pending_reply(pendings, cbreq[c].pending, cbreq[c].bot)
            /\ response' = Response("callback", None, 200)
       ELSE /\ pendings' = pendings
            /\ response' = Response("callback", None, 500)
    /\ cbreq' = [cbreq EXCEPT ![c] = CallbackIdle]
    /\ UNCHANGED <<messages, settings, chat, failreq, aside>>

MessageIds == 1..MaxMessages
PendingIds == 1..MaxPendings

Next ==
    \/ Tick
    \/ \E s \in ChatSlots, u \in Users, b \in Users : SendForbidden(s, u, b)
    \/ \E s \in ChatSlots, u \in Users, c \in UserContents : SendLookup(s, u, c)
    \/ \E s \in ChatSlots : SendDeleteExisting(s)
    \/ \E s \in ChatSlots : SendCreateMessage(s)
    \/ \E s \in ChatSlots : SendCreatePending(s)
    \/ \E s \in ChatSlots, b \in WebhookBehaviours : SendForward(s, b)
    \/ \E s \in ChatSlots : SendDeleteMessage(s)
    \/ \E f \in FailSlots, u \in Users, id \in PendingIds : FailLookup(f, u, id)
    \/ \E f \in FailSlots : FailCommit(f)
    \/ \E c \in CallbackSlots, h \in Headers : CallbackForbidden(c, h)
    \/ \E c \in CallbackSlots, h \in Headers, mid \in MessageIds, r \in Replies :
           CallbackLookup(c, h, mid, r)
    \/ \E c \in CallbackSlots : CallbackCreateMessage(c)
    \/ \E c \in CallbackSlots : CallbackComplete(c)

Spec == Init /\ [][Next]_vars

\* --------------------------------------- GET /api/messages (get_messages)
\* The history is modelled with the column the listing sorts by, created_at
\* (models.py 30), which the chat handlers above never read.  datetime.utcnow
\* has microsecond resolution and an INSERT takes longer than that: the clock
\* has moved on between any two inserts, so that the stored rows of a user
\* have distinct created_at values, in the order in which they were created.
Stamp(m, t) ==
    [id |-> m.id, user_id |-> m.user_id, content |-> m.content,
     direction |-> m.direction, created_at |-> t]

Directions == {"user", "n8n"}
Limits == -1..MaxLimit              \* query parameter limit

RECURSIVE OrderByCreatedAsc(_)
OrderByCreatedAsc(rows) ==
    IF rows = {} THEN <<>>
    ELSE LET oldest == CHOOSE m \in rows : \A o \in rows : m.created_at <= o.created_at
         IN  <<oldest>> \o OrderByCreatedAsc(rows \ {oldest})

\* ORDER BY created_at DESC
RECURSIVE OrderByCreatedDesc(_)
OrderByCreatedDesc(rows) ==
    IF rows = {} THEN <<>>
    ELSE LET newest == CHOOSE m \in rows : \A o \in rows : o.created_at <= m.created_at
         IN  <<newest>> \o OrderByCreatedDesc(rows \ {newest})

\* LIMIT n: the first n rows; SQLite reads a negative n as no limit
Limit(rows, n) ==
    IF n < 0 \/ n >= Len(rows) THEN rows ELSE SubSeq(rows, 1, n)

\* reversed(rows)
Reversed(rows) == [i \in 1..Len(rows) |-> rows[Len(rows) + 1 - i]]

\* list_messages with the rows taken oldest first and not reversed
list_messages_OldestFirst(msgs, user, limit) ==
    Limit(OrderByCreatedAsc(MessagesOf(msgs, user)), limit)

\* crud.py 42-51
list_messages(msgs, user, limit) ==
    Reversed(Limit(OrderByCreatedDesc(MessagesOf(msgs, user)), limit))

HistoryFrame == <<pendings, settings, chat, failreq, cbreq, users, regreq, retired>>

\* crud.py 34-39 as called by send_message (direction "user") and by
\* receive_n8n_callback (direction "n8n"): the row is stamped with the clock
\* (models.py 30), which has moved on when the next statement runs.
StoreMessage(u, direction) ==
    /\ NextId(messages) <= MaxHistory
    /\ now < MaxStamp
    /\ LET content == IF direction = "user" THEN "hello" ELSE "r1"
       IN  messages' = messages \cup
               {Stamp(Message(NextId(messages), u, content, direction), now)}
    /\ now' = now + 1
    /\ response' = NoResponse
    /\ UNCHANGED HistoryFrame

\* crud.py 54-56 as called by the rollback of send_message (main.py 172)
RemoveMessage(id) ==
    /\ \E m \in messages : m.id = id /\ m.direction = "user"
    /\ messages' = delete_message(messages, id)
    /\ response' = NoResponse
    /\ UNCHANGED <<now, HistoryFrame>>

\* main.py 106-113
GetMessages(u, limit) ==
    /\ response' = [op |-> "messages", user |-> u, status |-> 200, limit |-> limit,
                    messages |-> list_messages(messages, u, limit)]
    /\ UNCHANGED <<messages, now, HistoryFrame>>

NextHistory ==
    \/ \E u \in Users, d \in Directions : StoreMessage(u, d)
    \/ \E id \in 1..MaxHistory : RemoveMessage(id)
    \/ \E u \in Users, n \in Limits : GetMessages(u, n)

SpecHistory == Init /\ [][NextHistory]_vars

\* ------------------------------------------ /api/auth (accounts and tokens)
\* A signed token is its claims together with the key it was signed with; the
\* clock counts minutes.  iat is read by no handler and is left out; sub is
\* str(user.id), read back with int().
jwt_secret_key == "change-me"
Keys == {jwt_secret_key, "other-key"}
TokenTypes == {"access", "refresh"}
Lifetime(token_type) ==
    IF token_type = "access" THEN access_token_exp_minutes
    ELSE refresh_token_exp_minutes

\* The clock values at which requests are made: the start, and the moments
\* at which the tokens issued at the start expire.
Instants == {0, access_token_exp_minutes, refresh_token_exp_minutes}

\* security.py 29-39
create_token(subject, expires_minutes, token_type, t) ==
    [sub |-> subject, type |-> token_type, exp |-> t + expires_minutes,
     key |-> jwt_secret_key]

\* security.py 42-55
create_access_token(user_id, t) ==
    create_token(user_id, access_token_exp_minutes, "access", t)
create_refresh_token(user_id, t) ==
    create_token(user_id, refresh_token_exp_minutes, "refresh", t)

NoTokens == [access_token |-> "", refresh_token |-> ""]

\* main.py 68-73
issue_tokens(user, t) ==
    [access_token |-> create_access_token(user.id, t),
     refresh_token |-> create_refresh_token(user.id, t)]

\* The tokens a client may present: every token the service can have issued
\* to a user id, and tokens signed with another key, whose claims are not
\* looked at.
Tokens ==
    [sub : 1..MaxUsers, type : TokenTypes,
     exp : {t + Lifetime(ty) : t \in Instants, ty \in TokenTypes},
     key : {jwt_secret_key}]
    \cup [sub : {1}, type : TokenTypes,
          exp : {2 * refresh_token_exp_minutes}, key : Keys \ {jwt_secret_key}]
NoCredentials == [sub |-> None, type |-> "none", exp |-> 0, key |-> "none"]
Credentials == Tokens \cup {NoCredentials}

Decoded(payload) == [ok |-> TRUE, detail |-> "", payload |-> payload]
Undecoded(detail) == [ok |-> FALSE, detail |-> detail, payload |-> NoCredentials]

\* decode_token without the test of the "type" claim
decode_token_AnyType(token, expected_type, t) ==
    IF token.key # jwt_secret_key THEN Undecoded("Token invalide")
    ELSE IF token.exp <= t THEN Undecoded("Token expire")
    ELSE Decoded(token)

\* security.py 58-69.  jwt.decode verifies the signature, then exp (expired
\* when exp <= now); every failure is raised as a 401.
decode_token(token, expected_type, t) ==
    IF token.key # jwt_secret_key THEN Undecoded("Token invalide")
    ELSE IF token.exp <= t THEN Undecoded("Token expire")
    ELSE IF token.type # expected_type THEN Undecoded("Type de token invalide")
    ELSE Decoded(token)

\* What an /api/auth step did at the HTTP boundary: the handler, what the
\* request carried, the status and detail returned, the user the request was
\* served for and the token pair returned.
AuthResponse(op, request, status, detail, user, tokens) ==
    [op |-> op, request |-> request, status |-> status, detail |-> detail,
     user |-> user, tokens |-> tokens]
Unauthorized(op, request, detail) ==
    AuthResponse(op, request, 401, detail, None, NoTokens)

\* security.py 72-86, the dependency every protected endpoint runs first
get_current_user(credentials, usrs, t) ==
    IF credentials = NoCredentials
    THEN Unauthorized("me", credentials, "Authentification requise")
    ELSE LET decoded == decode_token(credentials, "access", t)
         IN  IF ~decoded.ok THEN Unauthorized("me", credentials, decoded.detail)
             ELSE LET user == get_user(usrs, decoded.payload.sub)
                  IN  IF user = NoUser
                      THEN Unauthorized("me", credentials, "Utilisateur introuvable")
                      ELSE AuthResponse("me", credentials, 200, "", user.id, NoTokens)

Credential(email, password) == [email |-> email, password |-> password]

\* login with an unknown email told apart from a wrong password
login_TellsUnknown(usrs, email, password, t) ==
    LET user == authenticate_user(usrs, email, password)
    IN  IF user = NoUser
        THEN Unauthorized("login", Credential(email, password),
                 IF get_user_by_email(usrs, email) = NoUser
                 THEN "Utilisateur introuvable" ELSE "Identifiants invalides.")
        ELSE AuthResponse("login", Credential(email, password), 200, "", user.id,
                 issue_tokens(user, t))

\* main.py 84-89
login(usrs, email, password, t) ==
    LET user == authenticate_user(usrs, email, password)
    IN  IF user = NoUser
        THEN Unauthorized("login", Credential(email, password), "Identifiants invalides.")
        ELSE AuthResponse("login", Credential(email, password), 200, "", user.id,
                 issue_tokens(user, t))

\* main.py 92-98
refresh(usrs, token, t) ==
    LET decoded == decode_token(token, "refresh", t)
    IN  IF ~decoded.ok THEN Unauthorized("refresh", token, decoded.detail)
        ELSE LET user == get_user(usrs, decoded.payload.sub)
             IN  IF user = NoUser
                 THEN Unauthorized("refresh", token, "Utilisateur introuvable")
                 ELSE AuthResponse("refresh", token, 200, "", user.id,
                          issue_tokens(user, t))

AuthFrame == <<messages, pendings, settings, chat, failreq, cbreq, retired>>

FreeRegister(r) ==
    regreq[r].pc = "idle" /\ \A q \in RegisterSlots : q < r => regreq[q].pc # "idle"

\* main.py 78-79: the SELECT and the test of its result
RegisterLookup(r, email, password) ==
    /\ FreeRegister(r)
    /\ IF get_user_by_email(users, email) # NoUser
       THEN /\ regreq' = regreq
            /\ response' = AuthResponse("register", Credential(email, password), 400,
                                "Cet email est deja utilise.", None, NoTokens)
       ELSE /\ regreq' = [regreq EXCEPT ![r] =
                        [pc |-> "create", email |-> email, password |-> password]]
            /\ response' = NoResponse
    /\ UNCHANGED <<users, now, AuthFrame>>

\* main.py 80-81.  users.email is UNIQUE (models.py 15): the INSERT of an
\* email that is stored by now raises IntegrityError, which nothing catches
\* (500).
RegisterCreate(r) ==
    /\ regreq[r].pc = "create"
    /\ NextId(users) <= MaxUsers
    /\ LET request == Credential(regreq[r].email, regreq[r].password)
       IN  IF \E u \in users : u.email = lower(regreq[r].email)
           THEN /\ users' = users
                /\ response' = AuthResponse("register", request, 500,
                                    "Internal Server Error", None, NoTokens)
           ELSE /\ users' = create_user(users, regreq[r].email, regreq[r].password)
                /\ response' = AuthResponse("register", request, 201, "", NextId(users),
                                    issue_tokens([id |-> NextId(users)], now))
    /\ regreq' = [regreq EXCEPT ![r] = RegisterIdle]
    /\ UNCHANGED <<now, AuthFrame>>

\* main.py 84-89
Login(email, password) ==
    /\ response' = login(users, email, password, now)
    /\ UNCHANGED <<users, regreq, now, AuthFrame>>

\* main.py 92-98
Refresh(token) ==
    /\ response' = refresh(users, token, now)
    /\ UNCHANGED <<users, regreq, now, AuthFrame>>

\* main.py 101-103, and the start of every other protected endpoint
Me(credentials) ==
    /\ response' = get_current_user(credentials, users, now)
    /\ UNCHANGED <<users, regreq, now, AuthFrame>>

AdvanceClock(t) ==
    /\ t > now
    /\ now' = t
    /\ response' = NoResponse
    /\ UNCHANGED <<users, regreq, AuthFrame>>

\* config.py 16-17: the defaults
DefaultSettings == [n8n_webhook_url |-> FALSE, n8n_callback_token |-> "none"]

\* No account exists when the service is first started.
InitAuth ==
    /\ messages = {}
    /\ pendings = {}
    /\ settings = DefaultSettings
    /\ chat = [s \in ChatSlots |-> ChatIdle]
    /\ failreq = [f \in FailSlots |-> FailIdle]
    /\ cbreq = [c \in CallbackSlots |-> CallbackIdle]
    /\ response = NoResponse
    /\ users = {}
    /\ regreq = [r \in RegisterSlots |-> RegisterIdle]
    /\ now = 0
    /\ retired = {}

NextAuth ==
    \/ \E r \in RegisterSlots, e \in Emails, p \in Passwords : RegisterLookup(r, e, p)
    \/ \E r \in RegisterSlots : RegisterCreate(r)
    \/ \E e \in Emails, p \in Passwords : Login(e, p)
    \/ \E token \in Tokens : Refresh(token)
    \/ \E c \in Credentials : Me(c)
    \/ \E t \in Instants : AdvanceClock(t)

SpecAuth == InitAuth /\ [][NextAuth]_vars

\* ------------------------------------------------- one request at a time
\* The chat handlers again, each taken as a whole: what a single client sees
\* that waits for every answer before it sends its next request.  retired
\* records the originating message id of every PendingReply that a request
\* has deleted.
CallbackAnswer(mid, status) ==
    [op |-> "callback", user |-> None, status |-> status, header |-> "n/a",
     message_id |-> mid]

SerialFrame == <<settings, chat, failreq, cbreq, users, regreq, now>>

\* main.py 125-180
ChatRequest(u, c, behaviour) ==
    LET existing == get_pending_reply_by_user(pendings, u, FALSE)
        decision == SendDecision(existing)
        kept == IF decision = "delete" THEN delete_pending_reply(pendings, existing.id)
                ELSE pendings
        superseded == IF decision = "delete" THEN {existing.user_message_id} ELSE {}
        inbound == NextId(messages)
        pending == NextId(kept)
        stored == create_message(messages, u, c, "user")
        queued == create_pending_reply(kept, u, inbound)
        out == forward_to_n8n(settings.n8n_webhook_url, behaviour)
    IN  IF decision = "conflict"
        THEN /\ response' = Response("send", u, 409)
             /\ UNCHANGED <<messages, pendings, retired, SerialFrame>>
        ELSE /\ inbound <= MaxMessages
             /\ pending <= MaxPendings
             /\ IF Caught(out.raised)
                THEN /\ pendings' = delete_pending_reply(queued, pending)
                     /\ messages' = delete_message(stored, inbound)
                     /\ retired' = retired \cup superseded \cup {inbound}
                ELSE /\ pendings' = queued
                     /\ messages' = stored
                     /\ retired' = retired \cup superseded
             /\ response' = Response("send", u, out.status)
             /\ UNCHANGED SerialFrame

\* main.py 206-218
FailRequest(u, id) ==
    LET pending == get_pending_reply_by_id(pendings, id, u)
    IN  /\ IF pending = NoPending
           THEN /\ pendings' = pendings
                /\ response' = Response("fail", u, 404)
           ELSE IF pending.status # "pending"
           THEN /\ pendings' = pendings
                /\ response' = Response("fail", u, 409)
           ELSE /\ pendings' = fail_pending_reply(pendings, id)
                /\ response' = Response("fail", u, 200)
        /\ UNCHANGED <<messages, retired, SerialFrame>>

\* main.py 221-245
CallbackRequest(header, mid, reply) ==
    LET pending == get_pending_reply_by_message_id(pendings, mid)
    IN  IF TokenRejected(settings.n8n_callback_token, header)
        THEN /\ response' = CallbackAnswer(mid, 403)
             /\ UNCHANGED <<messages, pendings, retired, SerialFrame>>
        ELSE IF pending = NoPending
        THEN /\ response' = CallbackAnswer(mid, 404)
             /\ UNCHANGED <<messages, pendings, retired, SerialFrame>>
        ELSE IF pending.status # "pending"
        THEN /\ response' = CallbackAnswer(mid, 409)
             /\ UNCHANGED <<messages, pendings, retired, SerialFrame>>
        ELSE /\ NextId(messages) <= MaxMessages
             /\ messages' = create_message(messages, pending.user_id, reply, "n8n")
             /\ pendings' = complete_pending_reply(pendings, pending.id, NextId(messages))
             /\ response' = CallbackAnswer(mid, 200)
             /\ UNCHANGED <<retired, SerialFrame>>

NextSerial ==
    \/ Tick
    \/ \E u \in Users, c \in UserContents, b \in WebhookBehaviours : ChatRequest(u, c, b)
    \/ \E u \in Users, id \in PendingIds : FailRequest(u, id)
    \/ \E h \in Headers, mid \in MessageIds, r \in Replies : CallbackRequest(h, mid, r)

SpecSerial == Init /\ [][NextSerial]_vars

\* ------------------------------------------------- a single server process
\* send_message is a coroutine whose database calls are synchronous: from its
\* SELECT (main.py 134) to the return of create_pending_reply (main.py 162)
\* it never yields, its only await being forward_to_n8n (main.py 168).  On one
\* event loop no other chat submission takes a step while a submission is in
\* that part; what is kept here is that no submission of the same user does.
\* fail_pending and receive_n8n_callback are plain functions, run on worker
\* threads, and go on interleaving at every statement.
InCritical(s) == chat[s].pc \in {"delete_existing", "create_message", "create_pending"}

Undisturbed(s, u) ==
    \A t \in ChatSlots \ {s} : InCritical(t) => chat[t].user # u

SingleSendLookup(s, u, c) == Undisturbed(s, u) /\ SendLookup(s, u, c)
SingleSendForward(s, b) == Undisturbed(s, chat[s].user) /\ SendForward(s, b)
SingleSendDeleteMessage(s) == Undisturbed(s, chat[s].user) /\ SendDeleteMessage(s)

NextSingle ==
    \/ Tick
    \/ \E s \in ChatSlots, u \in Users, b \in Users : SendForbidden(s, u, b)
    \/ \E s \in ChatSlots, u \in Users, c \in UserContents : SingleSendLookup(s, u, c)
    \/ \E s \in ChatSlots : SendDeleteExisting(s)
    \/ \E s \in ChatSlots : SendCreateMessage(s)
    \/ \E s \in ChatSlots : SendCreatePending(s)
    \/ \E s \in ChatSlots, b \in WebhookBehaviours : SingleSendForward(s, b)
    \/ \E s \in ChatSlots : SingleSendDeleteMessage(s)
    \/ \E f \in FailSlots, u \in Users, id \in PendingIds : FailLookup(f, u, id)
    \/ \E f \in FailSlots : FailCommit(f)
    \/ \E c \in CallbackSlots, h \in Headers : CallbackForbidden(c, h)
    \/ \E c \in CallbackSlots, h \in Headers, mid \in MessageIds, r \in Replies :
           CallbackLookup(c, h, mid, r)
    \/ \E c \in CallbackSlots : CallbackCreateMessage(c)
    \/ \E c \in CallbackSlots : CallbackComplete(c)

SpecSingle == Init /\ [][NextSingle]_vars

\* ------------------------------------------------------------------ claims
RowsOf(u) == {p \in pendings : p.user_id = u}

\* main.py 146-147 read the other way: the row still blocks its user
Live(p) == p.status = "pending" /\ p.age <= StaleSeconds

\* The row get_pending_reply_by_user(.., only_pending=False) returns for u
NewestOf(pends, u) == get_pending_reply_by_user(pends, u, FALSE)

\* C1: in every reachable state each user has at most one live PendingReply
\* (status "pending", created at most 60 seconds ago).
C1_AtMostOneLive ==
    \A u \in Users : Cardinality({p \in RowsOf(u) : Live(p)}) <= 1

\* A chat request in slot s returns in this step with a status other than 201
\* after it had created its PendingReply.
ForwardingFailed(s) ==
    /\ chat[s].pc \in {"forwarding", "delete_message"}
    /\ chat'[s].pc = "idle"
    /\ response'.status # 201

\* C2: when the forwarding step of POST /api/chat does not succeed, the
\* request returns an error and, once it has returned, neither the Message nor
\* the PendingReply it created exists, and the same user's next submission is
\* not refused as a conflict.
C2_NoResidue ==
    [][\A s \in ChatSlots : ForwardingFailed(s) =>
          /\ response'.status >= 400
          /\ chat[s].inbound \notin Ids(messages')
          /\ ~\E p \in pendings' : /\ p.id = chat[s].pending
                                   /\ p.user_message_id = chat[s].inbound
          /\ SendDecision(NewestOf(pendings', chat[s].user)) # "conflict"]_vars

\* A chat request of user u gets past the check of main.py 134-152 in this step.
Accepted(s, u) ==
    /\ chat[s].pc = "idle"
    /\ chat'[s].pc # "idle"
    /\ chat'[s].user = u

\* C3: while user u has a PendingReply in status "pending" that is at most 60
\* seconds old, a POST /api/chat by u is answered 409 and leaves both tables
\* as they are: it is never let past the check.
C3_ConflictNoChange ==
    [][\A u \in Users : (\E p \in RowsOf(u) : Live(p)) =>
          /\ \A s \in ChatSlots : ~Accepted(s, u)
          /\ response' = Response("send", u, 409) =>
                 UNCHANGED <<messages, pendings>>]_vars

\* C4: every PendingReply row has a bot-message reference exactly when its
\* status is "completed": none while "pending", none when "failed".
C4_StatusMatchesBotRef ==
    \A p \in pendings :
        /\ p.status = "pending" => p.bot_message_id = None
        /\ p.status = "completed" => p.bot_message_id # None
        /\ p.status = "failed" => p.bot_message_id = None

\* C5: once a PendingReply row is "completed" or "failed", no step changes its
\* status; the row may only be deleted.
C5_TerminalIsFinal ==
    [][\A p \in pendings : p.status \in {"completed", "failed"} =>
          \A q \in pendings' : q.id = p.id => q.status = p.status]_vars

\* The callback in slot c inserts its bot message in this step.
CreatesBotMessage(c) ==
    /\ cbreq[c].pc = "create_message"
    /\ cbreq'[c].pc = "complete"

\* C6: a callback for a message whose PendingReply is "pending" creates
\* exactly one "n8n" Message with the reply text and the PendingReply's owner
\* and completes the PendingReply with a reference to it; a callback is let
\* through only while that PendingReply is "pending", so that no second bot
\* Message is ever created for the same user message.
C6_OneBotMessage ==
    [][\A c \in CallbackSlots :
          /\ (cbreq[c].pc = "idle" /\ cbreq'[c].pc # "idle") =>
                 get_pending_reply_by_message_id(pendings, cbreq'[c].message_id).status
                     = "pending"
          /\ CreatesBotMessage(c) =>
                 /\ messages' = messages \cup
                        {Message(cbreq'[c].bot, cbreq[c].user, cbreq[c].reply, "n8n")}
                 /\ cbreq'[c].bot \notin Ids(messages)
                 /\ \A p \in pendings : p.user_message_id = cbreq[c].message_id =>
                        p.user_id = cbreq[c].user /\ p.bot_message_id = None
                 /\ \A d \in CallbackSlots \ {c} :
                        ~(cbreq[d].pc = "complete"
                          /\ cbreq[d].message_id = cbreq[c].message_id)
          /\ (cbreq[c].pc = "complete" /\ cbreq'[c].pc = "idle"
                 /\ response'.status = 200) =>
                 \E p \in pendings' : /\ p.id = cbreq[c].pending
                                      /\ p.user_message_id = cbreq[c].message_id
                                      /\ p.status = "completed"
                                      /\ p.bot_message_id = cbreq[c].bot]_vars

\* C7: when user u's PendingReply is still "pending" and older than 60
\* seconds, a new POST /api/chat by u is not refused; the stale row is gone
\* once the request has deleted it, and the request stores a new "pending"
\* PendingReply that references the user Message it has just stored.
C7_StaleSuperseded ==
    [][/\ \A u \in Users :
              (\E p \in RowsOf(u) : p.status = "pending" /\ p.age > StaleSeconds)
                  => response' # Response("send", u, 409)
       /\ \A s \in ChatSlots :
              /\ (chat[s].pc = "delete_existing" /\ chat'[s].pc = "create_message") =>
                     chat[s].existing \notin Ids(pendings')
              /\ (chat[s].pc = "create_pending" /\ chat'[s].pc = "forwarding") =>
                     /\ \E m \in messages' : /\ m.id = chat[s].inbound
                                             /\ m.direction = "user"
                                             /\ m.user_id = chat[s].user
                     /\ \E p \in pendings' \ pendings :
                            /\ p.id = chat'[s].pending
                            /\ p.status = "pending"
                            /\ p.user_id = chat[s].user
                            /\ p.user_message_id = chat[s].inbound]_vars

\* C8: a fail report is let through only for a "pending" row of the caller
\* and sets that row to "failed"; a 404 or 409 answer changes nothing; after
\* a successful fail report the same user's next chat submission is accepted
\* at once and deletes the failed row.
C8_FailUnblocks ==
    [][\A f \in FailSlots :
          /\ (failreq[f].pc = "idle" /\ failreq'[f].pc = "commit") =>
                 \E p \in pendings : /\ p.id = failreq'[f].pending
                                     /\ p.user_id = failreq'[f].user
                                     /\ p.status = "pending"
          /\ (failreq[f].pc = "commit" /\ failreq'[f].pc = "idle"
                 /\ response'.status = 200) =>
                 /\ \E p \in pendings' : /\ p.id = failreq[f].pending
                                         /\ p.user_id = failreq[f].user
                                         /\ p.status = "failed"
                 /\ SendDecision(NewestOf(pendings', failreq[f].user)) = "delete"
                 /\ NewestOf(pendings', failreq[f].user).id = failreq[f].pending
          /\ (response'.op = "fail" /\ response'.status \in {404, 409}) =>
                 UNCHANGED <<messages, pendings>>]_vars

\* C9: when a callback secret is configured, every callback request whose
\* X-Callback-Token is missing or differs from it is answered 403 and changes
\* no Message and no PendingReply; a request that carries the secret, and any
\* request when no secret is configured, is not answered 403.
C9_CallbackToken ==
    [][(response'.op = "callback" /\ response'.header # "n/a") =>
          IF /\ settings.n8n_callback_token # "none"
             /\ response'.header # settings.n8n_callback_token
          THEN /\ response'.status = 403
               /\ UNCHANGED <<messages, pendings, cbreq>>
          ELSE response'.status # 403]_vars

\* A callback for an existing pending row was refused for its token.
C9_Witness ==
    /\ settings.n8n_callback_token = Secret
    /\ response = CallbackReceived("wrong", 403)
    /\ \E p \in pendings : p.status = "pending"

\* C10: every chat submission that gets past the check of main.py 134-152
\* found no PendingReply of its user, or a failed or stale one; the state with
\* two live PendingReply rows of one user (C10_Witness) is reached all the
\* same, by two submissions that both got past the check before either had
\* committed its row.
C10_CheckPassedOnStaleOrNone ==
    [][\A s \in ChatSlots, u \in Users : Accepted(s, u) =>
          LET seen == NewestOf(pendings, u)
          IN  \/ seen = NoPending
              \/ seen.status = "failed"
              \/ seen.age > StaleSeconds]_vars

\* One user owns two PendingReply rows in status "pending" at once, both
\* younger than the staleness window.
C10_Witness ==
    \E u \in Users : \E p, q \in RowsOf(u) : p.id # q.id /\ Live(p) /\ Live(q)

\* C11: a POST /api/chat whose body user_id is not the caller's id is answered
\* 403 and has no side effect: both tables stay as they are, and no chat
\* request starts or moves on, so nothing is forwarded for it.
C11_ForbiddenNoEffect ==
    [][\A u \in Users : response' = Response("send", u, 403) =>
          UNCHANGED <<messages, pendings, chat>>]_vars

\* A submission was refused with 403 while its caller had a row that a
\* submission would delete, and the other user had a row too.
C11_Witness ==
    \E u \in Users :
        /\ response = Response("send", u, 403)
        /\ \E p \in RowsOf(u) : Supersedable(p)
        /\ \E q \in pendings : q.user_id # u

\* The rows of users other than u are the same before and after the step.
OthersUntouched(u) ==
    /\ \A p \in pendings : p.user_id # u => p \in pendings'
    /\ \A m \in messages : m.user_id # u => m \in messages'

\* C12: a request authenticated as user A neither reads nor changes a row of
\* another user B: looking up B's PendingReply by id as A finds nothing (404),
\* A's current PendingReply and A's messages are rows of A, a fail report is
\* let through only for a row of its caller, no step of a fail report or of a
\* chat submission of A changes or deletes a row of B, and a submission of A
\* is refused with 409 only because of a row of A.
C12_Isolation ==
    [][/\ \A a \in Users :
              /\ \A p \in pendings : p.user_id # a =>
                     get_pending_reply_by_id(pendings, p.id, a) = NoPending
              /\ get_pending_reply_by_user(pendings, a, TRUE).user_id \in {a, None}
              /\ \A m \in MessagesOf(messages, a) : m.user_id = a
              /\ response' = Response("send", a, 409) =>
                     \E p \in RowsOf(a) : ~Supersedable(p)
       /\ \A f \in FailSlots :
              /\ (failreq[f].pc = "idle" /\ failreq'[f].pc = "commit") =>
                     \E p \in pendings : /\ p.id = failreq'[f].pending
                                         /\ p.user_id = failreq'[f].user
              /\ (failreq[f].pc = "commit" /\ failreq'[f].pc = "idle") =>
                     OthersUntouched(failreq[f].user)
       /\ \A s \in ChatSlots :
              (chat[s].pc # "idle" /\ chat'[s] # chat[s]) =>
                  OthersUntouched(chat[s].user)]_vars

\* C17: no step modifies a stored Message, and a Message leaves storage only
\* in the last step of the rollback (main.py 172) of the chat request that
\* stored it as its user message; deleting a superseded PendingReply, a fail
\* report and a callback leave every stored Message as it is.
C17_MessagesImmutable ==
    [][\A m \in messages :
          \/ m \in messages'
          \/ \E s \in ChatSlots :
                 /\ chat[s].pc = "delete_message" /\ chat'[s].pc = "idle"
                 /\ chat[s].inbound = m.id
                 /\ m.direction = "user" /\ m.user_id = chat[s].user
                 /\ \A t \in ChatSlots \ {s} : chat[t].inbound # m.id
                 /\ messages' = messages \ {m}]_vars

\* A submission has deleted its user's earlier PendingReply, and the Message
\* that row was created for is still stored.
C17_Witness ==
    \E s \in ChatSlots :
        /\ chat[s].pc = "create_message"
        /\ chat[s].existing # None
        /\ chat[s].existing \notin Ids(pendings)
        /\ \E m \in messages : m.user_id = chat[s].user /\ m.direction = "user"

\* C18: the check of POST /api/chat treats the caller's newest PendingReply
\* alike whether it is "completed" or "pending": while that row is completed
\* and at most 60 seconds old, a submission is refused with 409 and changes
\* nothing; once it is older, a submission is let through and deletes that
\* row, and the deletion leaves every Message in storage.
C18_CompletedBlocks ==
    [][/\ \A u \in Users :
              LET newest == NewestOf(pendings, u)
              IN  newest.status = "completed" =>
                      IF newest.age <= StaleSeconds
                      THEN /\ \A s \in ChatSlots : ~Accepted(s, u)
                           /\ response' = Response("send", u, 409) =>
                                  UNCHANGED <<messages, pendings>>
                      ELSE /\ response' # Response("send", u, 409)
                           /\ \A s \in ChatSlots : Accepted(s, u) =>
                                  /\ chat'[s].pc = "delete_existing"
                                  /\ chat'[s].existing = newest.id
       /\ \A s \in ChatSlots :
              (chat[s].pc = "delete_existing" /\ chat'[s].pc = "create_message") =>
                  /\ chat[s].existing \notin Ids(pendings')
                  /\ messages' = messages]_vars

\* A submission was refused with 409 on a completed row, whose user and bot
\* Messages are stored.
C18_Witness ==
    \E u \in Users :
        /\ response = Response("send", u, 409)
        /\ NewestOf(pendings, u).status = "completed"
        /\ NewestOf(pendings, u).bot_message_id \in Ids(messages)

\* The rollback of the chat request in slot s deletes its PendingReply in
\* this step (main.py 171).
RollsBack(s) ==
    /\ chat[s].pc = "forwarding"
    /\ chat'[s].pc = "delete_message"

\* C20: when the forwarding call of a submission fails and the submission is
\* rolled back, nothing of it is left after the error response: neither its
\* PendingReply nor its user Message, and no bot Message made for it.  A bot
\* Message made for the submission by a callback that was processed during
\* the forwarding call is the one its PendingReply references, and no step
\* removes a bot Message (C17): none is left only if the PendingReply that the
\* rollback deletes references none.
C20_NoHalfSubmitted ==
    [][\A s \in ChatSlots :
          /\ RollsBack(s) =>
                 \A p \in pendings : p.user_message_id = chat[s].inbound =>
                     p.bot_message_id = None
          /\ (chat[s].pc = "delete_message" /\ chat'[s].pc = "idle") =>
                 /\ response'.status >= 400
                 /\ chat[s].inbound \notin Ids(messages')
                 /\ \A p \in pendings' : p.user_message_id # chat[s].inbound]_vars

Min(a, b) == IF a <= b THEN a ELSE b
Range(seq) == {seq[i] : i \in DOMAIN seq}

\* C13: for a user whose stored messages were created in the order M1..Mk,
\* listing with limit N >= 0 returns exactly the min(N, k) most recently
\* created of them, oldest first: the listing has min(N, k) rows, all of them
\* messages of that user, each created after the one before it, and every
\* message of the user that is left out was created before every listed one.
\* Creation order is the order of the ids (NextId).
C13_LastNChronological ==
    [][response'.op = "messages" =>
          LET out == response'.messages
              mine == MessagesOf(messages, response'.user)
          IN  response'.limit >= 0 =>
                  /\ Len(out) = Min(response'.limit, Cardinality(mine))
                  /\ Range(out) \subseteq mine
                  /\ \A i, j \in DOMAIN out : i < j => out[i].id < out[j].id
                  /\ \A m \in mine \ Range(out) :
                         \A i \in DOMAIN out : m.id < out[i].id]_vars

\* Three messages of one user are stored, the other user has one too, and a
\* listing with limit 2 returned two rows.
C13_Witness ==
    /\ response.op = "messages"
    /\ response.limit = 2
    /\ Len(response.messages) = 2
    /\ Cardinality(MessagesOf(messages, response.user)) = 3
    /\ \E m \in messages : m.user_id # response.user

\* An account whose email equals this one when both are lowercased
Registered(usrs, email) == {u \in usrs : lower(u.email) = lower(email)}

\* C14: after any registrations, concurrent ones included, no two User rows
\* have emails that are equal when lowercased; a registration whose email
\* differs at most in letter case from a registered one is answered 400 on
\* its lookup and creates no user, a registration creates at most the one
\* row of its own email, and a login with any case variant of a registered
\* email and the password of that account is served for that account.
C14_EmailCaseInsensitive ==
    [][/\ \A u, v \in users' : lower(u.email) = lower(v.email) => u = v
       /\ \A r \in RegisterSlots :
              /\ (regreq[r].pc = "idle" /\ regreq'[r].pc = "create") =>
                     Registered(users, regreq'[r].email) = {}
              /\ (regreq[r].pc = "create" /\ regreq'[r].pc = "idle") =>
                     \/ /\ response'.status = 201
                        /\ Registered(users, regreq[r].email) = {}
                        /\ users' = users \cup {User(response'.user, lower(regreq[r].email),
                                                     hash_password(regreq[r].password))}
                        /\ response'.user \notin Ids(users)
                     \/ /\ response'.status >= 400
                        /\ Registered(users, regreq[r].email) # {}
                        /\ users' = users
       /\ (response'.op = "register" /\ regreq' = regreq) =>
              /\ Registered(users, response'.request.email) # {}
              /\ response'.status = 400
              /\ users' = users
       /\ response'.op = "login" =>
              \A u \in Registered(users, response'.request.email) :
                  verify_password(response'.request.password, u.hashed_password) =>
                      /\ response'.status = 200
                      /\ response'.user = u.id]_vars

\* A login that spells a registered email in another letter case was served.
C14_Witness ==
    /\ response.op = "login"
    /\ response.status = 200
    /\ \E u \in users : /\ u.id = response.user
                        /\ u.email # response.request.email
                        /\ u.email = lower(response.request.email)

\* What makes a token good for a use: signed with the service's key, of the
\* type asked for, not expired, and naming an existing user.
GoodToken(token, token_type) ==
    /\ token.key = jwt_secret_key
    /\ token.type = token_type
    /\ now < token.exp
    /\ token.sub \in Ids(users)

\* C15: a protected endpoint serves a request exactly when it carries a token
\* signed with the service's key, of type "access", not expired, whose subject
\* is an existing user, and serves it for that user; every other credential
\* (none, expired, a refresh token) is answered 401 and nothing changes.  The
\* refresh endpoint returns a new pair, an access and a refresh token for the
\* token's subject with full lifetimes, exactly for such a token of type
\* "refresh"; every other token (an access token, an expired one) gets 401.
C15_TokenGate ==
    [][/\ response'.op = "me" =>
              IF GoodToken(response'.request, "access")
              THEN /\ response'.status = 200
                   /\ response'.user = response'.request.sub
              ELSE /\ response'.status = 401
                   /\ UNCHANGED <<users, regreq, now, messages, pendings>>
       /\ response'.op = "refresh" =>
              IF GoodToken(response'.request, "refresh")
              THEN /\ response'.status = 200
                   /\ response'.tokens =
                          [access_token |->
                               [sub |-> response'.request.sub, type |-> "access",
                                exp |-> now + access_token_exp_minutes,
                                key |-> jwt_secret_key],
                           refresh_token |->
                               [sub |-> response'.request.sub, type |-> "refresh",
                                exp |-> now + refresh_token_exp_minutes,
                                key |-> jwt_secret_key]]
              ELSE /\ response'.status = 401
                   /\ response'.tokens = NoTokens
                   /\ UNCHANGED <<users, regreq, now, messages, pendings>>]_vars

\* An unexpired access token of an existing user, signed with the service's
\* key, was refused by the refresh endpoint.
C15_Witness ==
    /\ response.op = "refresh"
    /\ response.status = 401
    /\ response.request.type = "access"
    /\ response.request.key = jwt_secret_key
    /\ now < response.request.exp
    /\ response.request.sub \in Ids(users)

\* C16: a login with a registered email and the password it was registered
\* with returns 200 with an access token that a protected endpoint accepts
\* for that account; every other login, be the email unknown or the password
\* wrong, gets one and the same answer: status 401, the same detail, no
\* user and no token.
C16_LoginIndistinguishable ==
    [][response'.op = "login" =>
          LET request == response'.request
              served == {u \in users :
                            /\ u.email = lower(request.email)
                            /\ u.hashed_password = hash_password(request.password)}
          IN  IF served # {}
              THEN /\ response'.status = 200
                   /\ response'.user \in Ids(served)
                   /\ get_current_user(response'.tokens.access_token, users', now')
                          = AuthResponse("me", response'.tokens.access_token, 200, "",
                                response'.user, NoTokens)
              ELSE response' = Unauthorized("login", request, "Identifiants invalides.")]_vars

\* A login with a registered email and a password that is not its own was
\* refused, while an unregistered email exists to compare it with.
C16_Witness ==
    /\ response.op = "login"
    /\ response.status = 401
    /\ \E u \in users : u.email = lower(response.request.email)
    /\ \E e \in Emails : \A u \in users : u.email # lower(e)

\* C19: once a PendingReply has been deleted, by a newer submission that
\* superseded it or by a rollback, every callback that arrives later for its
\* originating message id is answered 404 (403 when it fails the token
\* check), creates no Message and changes no PendingReply.
C19_LateCallbackNotFound ==
    [][(response'.op = "callback" /\ response'.message_id \in retired) =>
          /\ response'.status \in {403, 404}
          /\ UNCHANGED <<messages, pendings>>]_vars

\* C21: when no other submission of the same user takes a step while a
\* submission is between its lookup and the creation of its PendingReply,
\* every user has at most one PendingReply row, of whatever status, in every
\* reachable state.
C21_OneRowPerUser ==
    \A u \in Users : Cardinality(RowsOf(u)) <= 1

\* Two submissions of one user are both waiting for the webhook, the later
\* one having deleted the row of the earlier one, and the user has one row.
C21_Witness ==
    \E u \in Users :
        /\ \A s \in ChatSlots : chat[s].pc = "forwarding" /\ chat[s].user = u
        /\ \E s \in ChatSlots : chat[s].existing # None
        /\ Cardinality(RowsOf(u)) = 1

\* C22: every PendingReply row references a stored Message of direction
\* "user" that has the row's owner, no two rows reference the same user
\* Message, and a bot-message reference, when there is one, is to a stored
\* Message of direction "n8n" that has the row's owner.
C22_ReferencesIntact ==
    /\ \A p \in pendings :
           /\ \E m \in messages : /\ m.id = p.user_message_id
                                   /\ m.direction = "user"
                                   /\ m.user_id = p.user_id
           /\ p.bot_message_id # None =>
                  \E m \in messages : /\ m.id = p.bot_message_id
                                      /\ m.direction = "n8n"
                                      /\ m.user_id = p.user_id
    /\ \A p, q \in pendings : p.user_message_id = q.user_message_id => p.id = q.id
====
